---- MODULE Spec2Model ----
(***************************************************************************)
(* Auction lifecycle engine of the marketplace bot: the active_auctions    *)
(* table, live bidding (handle_auction_bid), the end callback              *)
(* (end_auction), the seller decision (handle_auction_accept/_reject),     *)
(* startup recovery (restore_active_auctions, process_missed_bids), the    *)
(* deal handoff (add_active_deal), and the giveaways: joins                *)
(* (JoinGiveawayView.join_giveaway), the end callback (end_giveaway) and    *)
(* restore_active_giveaways.                                               *)
(***************************************************************************)
EXTENDS Integers, Sequences, FiniteSets, TLC

(***************************************************************************)
(* Bounds of the model.                                                    *)
(***************************************************************************)
MaxMessages == 2        \* user messages kept in one thread's history
MaxReady == 2           \* on_ready firings (process starts and reconnects)
MaxReconnects == 3      \* on_ready firings in the runs with two recoveries
MaxDecisions == 2       \* deliveries of the seller's accept/reject decision
MaxDowntime == 3        \* messages of a downtime history (SpecReplay)
MaxJoins == 3           \* clicks on the join button of the giveaways

(***************************************************************************)
(* Program constants.                                                      *)
(***************************************************************************)
MAX_BID == 999999999    \* ceiling of a bid amount

None == "None"          \* Python's None, as an identity
NoRow == [absent |-> TRUE]  \* no row for the key
Bot == "bot"            \* bot.user
Seller == "S"
Users == {Seller, "A", "B"}
AuctionIds == {"a1"}
StartingBids == {100000}    \* starting bids a seller submits
Durations == {2}            \* listing durations, in clock units
LongestDuration == CHOOSE d \in Durations : \A e \in Durations : e <= d
\* the clock runs from the first listing to one unit past the latest end
MaxTime == LongestDuration + 1
\* IMAGE_UPLOAD_TIMEOUT, in clock units
ImageUploadTimeout == 2
\* submissions of the listing form by the seller
MaxSubmissions == 3
\* offsets of the host's local time (datetime.now) from UTC (datetime.utcnow)
UtcOffsets == {0, 1}
\* the ending-soon warning is sent this long before the end
WarningLead == 1

GiveawayIds == {"g1"}
Host == "H"
Joiners == {"A", "B"}               \* who clicks the join button
GiveawayDurations == {1}            \* giveaway durations, in clock units

(***************************************************************************)
(* Message contents: sequences of one-character strings.                   *)
(***************************************************************************)
Digits == {"0", "1", "2", "3", "4", "5", "6", "7", "8", "9"}
Symbols == {"$", ",", " ", "."}
\* characters str.isdigit() takes and int() does not, such as a superscript two
OtherDigits == {"sup2"}

DigitVal(d) ==
    CASE d = "0" -> 0 [] d = "1" -> 1 [] d = "2" -> 2 [] d = "3" -> 3
      [] d = "4" -> 4 [] d = "5" -> 5 [] d = "6" -> 6 [] d = "7" -> 7
      [] d = "8" -> 8 [] d = "9" -> 9

C120 == <<"$", "1", "2", "0", ",", "0", "0", "0">>
C150 == <<"1", "5", "0", "0", "0", "0">>
C200 == <<" ", "2", "0", "0", ".", "0", "0", "0">>
CWord == <<"h", "i">>
CZero == <<"0">>
CHuge == <<"1", "0", "0", "0", "0", "0", "0", "0", "0", "0">>
CBlank == <<" ">>
CSup == <<"2", "sup2">>
Amounts == {C120, C150, C200}
Malformed == {CWord, CZero, CHuge, CBlank}
ThreadContents == {C120, C150}    \* what users post in the lifecycle runs

\* str.strip(): drop leading and trailing whitespace
RECURSIVE LStrip(_)
LStrip(s) == IF s # <<>> /\ Head(s) = " " THEN LStrip(Tail(s)) ELSE s

RECURSIVE RStrip(_)
RStrip(s) ==
    IF s # <<>> /\ s[Len(s)] = " " THEN RStrip(SubSeq(s, 1, Len(s) - 1)) ELSE s

Strip(s) == RStrip(LStrip(s))

\* .replace('$','').replace(',','').replace(' ','').replace('.','')
CleanBid(s) == SelectSeq(s, LAMBDA ch : ch \notin Symbols)

\* str.isdigit(): non-empty and every character a digit
IsDigit(s) == s # <<>> /\ \A i \in 1..Len(s) : s[i] \in Digits \cup OtherDigits

\* int(clean_bid) raises ValueError
IntRaises(s) == s = <<>> \/ \E i \in 1..Len(s) : s[i] \notin Digits

\* int(clean_bid)
RECURSIVE ToInt(_)
ToInt(s) ==
    IF s = <<>> THEN 0 ELSE 10 * ToInt(SubSeq(s, 1, Len(s) - 1)) + DigitVal(s[Len(s)])

(***************************************************************************)
(* State.                                                                  *)
(***************************************************************************)
VARIABLES
    store,      \* active_auctions table: auction_id -> row, or NoRow
    deals,      \* active_deals table: sequence of rows, in insertion order
    ended,      \* ended_auctions log: sequence of rows, in insertion order
    history,    \* messages of each auction thread, oldest first
    threads,    \* auction_id -> TRUE while the thread exists
    online,     \* TRUE while the bot process runs
    now,        \* clock
    created,    \* auction ids already generated
    timers,     \* auction_id -> due times of the sleeping end timers
    etasks,     \* auction_id -> end_auction coroutines suspended at an await
    dtasks,     \* auction_id -> accept/reject coroutines suspended at an await
    gates,      \* auction_id -> what each delivered decision was answered, in order
    bidlog,     \* auction_id -> the writes of update_auction_bid, in order
    confirm,    \* auction_id -> TRUE once the seller holds the accept/reject buttons
    rs,         \* the running restore_active_auctions coroutine
    readyCount, \* on_ready firings so far
    shadow,     \* reference run of the live handler over a downtime history
    tz,         \* what the host's local clock is ahead of UTC, in clock units
    warnings,   \* auction_id -> due times of the sleeping ending-soon warnings
    giveaways,  \* active_giveaways table: giveaway_id -> row, or NoRow
    gcreated,   \* giveaway ids already generated
    gtimers,    \* giveaway_id -> due times of the sleeping end timers
    gtasks,     \* giveaway_id -> end_giveaway coroutines suspended at an await
    gannounce,  \* the set of results end_giveaway has sent to the giveaways channel
    joins,      \* the answers given to the clicks on the join button, in order
    grs,        \* the running restore_active_giveaways coroutine
    noops,      \* the kinds of callback that have found no record for their id
    verdict,    \* what the bid validation run has decided on its last message
    pending,    \* pending_listings row of the seller for listing type auction
    ptasks      \* the listing_timeout tasks started so far: wake time, done or not

\* the state of the pending submissions
pvars == <<pending, ptasks>>

\* the state of the giveaways
gvars == <<giveaways, gcreated, gtimers, gtasks, gannounce, joins, grs>>

vars == <<store, deals, ended, history, threads, online, now, created, timers,
          etasks, dtasks, gates, bidlog, confirm, rs, readyCount, shadow, tz, warnings,
          giveaways, gcreated, gtimers, gtasks, gannounce, joins, grs, noops,
          verdict, pending, ptasks>>

Message(author, content, created_at) ==
    [author |-> author, content |-> content, created_at |-> created_at]

IdleRestore == [pc |-> "idle"]

\* no giveaway has been created yet
NoGiveaways ==
    /\ giveaways = [g \in GiveawayIds |-> NoRow]
    /\ gcreated = {}
    /\ gtimers = [g \in GiveawayIds |-> <<>>]
    /\ gtasks = [g \in GiveawayIds |-> <<>>]
    /\ gannounce = {}
    /\ joins = <<>>
    /\ grs = IdleRestore
NoShadow == [on |-> FALSE]
NoVerdict == [on |-> FALSE]

\* get_pending_listing returns None
NoPending == [on |-> FALSE]

NoPendingListings ==
    /\ pending = NoPending
    /\ ptasks = <<>>

Init ==
    /\ store = [a \in AuctionIds |-> NoRow]
    /\ deals = <<>>
    /\ ended = <<>>
    /\ history = [a \in AuctionIds |-> <<>>]
    /\ threads = [a \in AuctionIds |-> FALSE]
    /\ online = TRUE
    /\ now = 0
    /\ created = {}
    /\ timers = [a \in AuctionIds |-> <<>>]
    /\ etasks = [a \in AuctionIds |-> <<>>]
    /\ dtasks = [a \in AuctionIds |-> <<>>]
    /\ gates = [a \in AuctionIds |-> <<>>]
    /\ bidlog = [a \in AuctionIds |-> <<>>]
    /\ confirm = [a \in AuctionIds |-> FALSE]
    /\ rs = IdleRestore
    /\ readyCount = 1
    /\ shadow = NoShadow
    /\ tz \in UtcOffsets
    /\ noops = {}
    /\ verdict = NoVerdict
    /\ warnings = [a \in AuctionIds |-> <<>>]
    /\ NoGiveaways
    /\ NoPendingListings

\* faulty variant: the amount is stored, the bidder column is left alone
UpdateAuctionBidAmountOnly(st, a, highest_bid, highest_bidder) ==
    IF st[a] = NoRow THEN st
    ELSE [st EXCEPT ![a].highest_bid = highest_bid]

(***************************************************************************)
(* Listing Store (database_mysql.py).                                      *)
(***************************************************************************)
\* UPDATE active_auctions SET highest_bid, highest_bidder WHERE auction_id
UpdateAuctionBid(st, a, highest_bid, highest_bidder) ==
    IF st[a] = NoRow THEN st
    ELSE [st EXCEPT ![a].highest_bid = highest_bid,
                    ![a].highest_bidder = highest_bidder]

\* UPDATE active_auctions SET status WHERE auction_id
UpdateAuctionStatus(st, a, status) ==
    IF st[a] = NoRow THEN st ELSE [st EXCEPT ![a].status = status]

\* DELETE FROM active_auctions WHERE auction_id
RemoveActiveAuction(st, a) == [st EXCEPT ![a] = NoRow]

\* the row handle_auction_image_upload stores
NewAuction(seller_id, starting_bid, end_time) ==
    [starting_bid |-> starting_bid,
     highest_bid |-> starting_bid,
     highest_bidder |-> None,
     seller_id |-> seller_id,
     end_time |-> end_time,
     status |-> "active"]

(***************************************************************************)
(* Bid Validator: the checks of handle_auction_bid, in the code's order.   *)
(***************************************************************************)
\* faulty variant: no ceiling on the amount
BidDecisionNoCeiling(auction, author, content) ==
    LET clean_content == Strip(content)
        clean_bid == CleanBid(clean_content)
        bid_amount == ToInt(clean_bid)
    IN  IF author = auction.seller_id THEN "seller"
        ELSE IF auction.highest_bidder # None /\ author = auction.highest_bidder
            THEN "self"
        ELSE IF clean_content = <<>> THEN "empty"
        ELSE IF ~IsDigit(clean_bid) \/ IntRaises(clean_bid) THEN "nan"
        ELSE IF bid_amount <= 0 THEN "nonpos"
        ELSE IF bid_amount <= auction.highest_bid THEN "low"
        ELSE "accept"

BidDecision(auction, author, content) ==
    LET clean_content == Strip(content)
        clean_bid == CleanBid(clean_content)
        bid_amount == ToInt(clean_bid)
    IN  IF author = auction.seller_id THEN "seller"
        ELSE IF auction.highest_bidder # None /\ author = auction.highest_bidder
            THEN "self"
        ELSE IF clean_content = <<>> THEN "empty"
        ELSE IF ~IsDigit(clean_bid) \/ IntRaises(clean_bid) THEN "nan"
        ELSE IF bid_amount <= 0 THEN "nonpos"
        ELSE IF bid_amount > MAX_BID THEN "toolarge"
        ELSE IF bid_amount <= auction.highest_bid THEN "low"
        ELSE "accept"

BidAmount(content) == ToInt(CleanBid(Strip(content)))

\* one call of update_auction_bid, as the log keeps it: the values written,
\* the values replaced, the status of the row and the caller
BidWrite(auction, amount, bidder, via) ==
    [amount |-> amount, bidder |-> bidder, replaced |-> auction.highest_bid,
     outbid |-> auction.highest_bidder, status |-> auction.status, via |-> via]

\* faulty variant: every amount that parses is stored, whatever the checks say
BidOutcomeUnchecked(st, a, author, content) ==
    IF st[a] = NoRow THEN st
    ELSE IF ~IntRaises(CleanBid(Strip(content)))
        THEN UpdateAuctionBid(st, a, BidAmount(content), author)
        ELSE st

\* the row after handle_auction_bid has handled one message
BidOutcome(st, a, author, content) ==
    IF st[a] = NoRow THEN st
    ELSE IF BidDecision(st[a], author, content) = "accept"
        THEN UpdateAuctionBid(st, a, BidAmount(content), author)
        ELSE st

(***************************************************************************)
(* Listing creation and live bidding.                                      *)
(***************************************************************************)
\* handle_auction_image_upload: thread, row and end timer of a new auction;
\* end_time is local time plus the duration, the timer sleeps the duration
AuctionCreated(a, starting_bid, duration) ==
    /\ online
    /\ a \notin created
    /\ now + duration <= MaxTime
    /\ created' = created \cup {a}
    /\ threads' = [threads EXCEPT ![a] = TRUE]
    /\ history' = [history EXCEPT ![a] = <<Message(Bot, <<>>, now)>>]
    /\ store' = [store EXCEPT ![a] = NewAuction(Seller, starting_bid, now + tz + duration)]
    /\ timers' = [timers EXCEPT ![a] = Append(@, now + duration)]
    /\ now' = now + 1
    /\ UNCHANGED <<deals, ended, online, etasks, dtasks, gates, bidlog, confirm, rs,
                   readyCount, shadow, tz, verdict, noops, warnings, gvars>>

\* an upload by a seller whose submission is not looked at
CreateAuction(a, starting_bid, duration) ==
    /\ AuctionCreated(a, starting_bid, duration)
    /\ UNCHANGED pvars

\* AuctionModal.on_submit: add_pending_listing replaces the seller's row of
\* this listing type, and a listing_timeout task is started for it
SubmitListing(starting_bid, duration) ==
    /\ online
    /\ Len(ptasks) < MaxSubmissions
    /\ pending' = [on |-> TRUE, at |-> now, starting_bid |-> starting_bid,
                   duration |-> duration]
    /\ ptasks' = Append(ptasks, [wake |-> now + ImageUploadTimeout, done |-> FALSE])
    /\ UNCHANGED <<store, deals, ended, history, threads, online, now, created, timers,
                   etasks, dtasks, gates, bidlog, confirm, rs, readyCount, shadow, tz,
                   verdict, noops, warnings, gvars>>

\* handle_auction_image_upload on a message with an attachment of a seller
\* with a pending row: the listing is created and the row removed
UploadImage(a) ==
    /\ pending # NoPending
    /\ AuctionCreated(a, pending.starting_bid, pending.duration)
    /\ pending' = NoPending
    /\ UNCHANGED ptasks

\* the same upload when creating the thread raises: the except branch
\* removes the row
UploadImageFailed ==
    /\ online
    /\ pending # NoPending
    /\ pending' = NoPending
    /\ UNCHANGED <<store, deals, ended, history, threads, online, now, created, timers,
                   etasks, dtasks, gates, bidlog, confirm, rs, readyCount, shadow, tz,
                   verdict, noops, warnings, gvars, ptasks>>

\* listing_timeout after its sleep: a row found for the seller and the
\* listing type is removed
ListingTimeout(i) ==
    /\ online
    /\ i \in 1..Len(ptasks)
    /\ ~ptasks[i].done
    /\ ptasks[i].wake <= now
    /\ ptasks' = [ptasks EXCEPT ![i].done = TRUE]
    /\ pending' = NoPending
    /\ UNCHANGED <<store, deals, ended, history, threads, online, now, created, timers,
                   etasks, dtasks, gates, bidlog, confirm, rs, readyCount, shadow, tz,
                   verdict, noops, warnings, gvars>>

\* the messages handle_auction_bid leaves in the thread: it deletes every
\* message it rejects with a warning; an accepted bid, a blank message and a
\* message in a thread without a row stay
StaysInThread(st, a, author, content) ==
    \/ st[a] = NoRow
    \/ BidDecision(st[a], author, content) \in {"accept", "empty"}

\* the thread holds at most n user messages after this one
Room(a, n) == Len(history[a]) <= n

\* what handle_auction_bid does to the table and the thread for one message
BidHandled(a, author, content) ==
    /\ online
    /\ threads[a]
    /\ store' = BidOutcome(store, a, author, content)
    /\ bidlog' = IF BidOutcome(store, a, author, content) = store THEN bidlog
                 ELSE [bidlog EXCEPT ![a] = Append(@,
                        BidWrite(store[a], BidAmount(content), author, "live"))]
    /\ history' = IF StaysInThread(store, a, author, content)
                  THEN [history EXCEPT ![a] = Append(@, Message(author, content, now))]
                  ELSE history
    /\ UNCHANGED <<deals, ended, threads, online, now, created, timers, etasks,
                   dtasks, gates, confirm, rs, readyCount, shadow, tz, pvars, noops, warnings, gvars>>

\* on_message -> handle_auction_bid for a message a user posts in the thread
HandleAuctionBid(a, author, content) ==
    /\ BidHandled(a, author, content)
    /\ UNCHANGED verdict

\* a user posts in the thread while the bot is offline
PostOffline(a, author, content) ==
    /\ ~online
    /\ threads[a]
    /\ history' = [history EXCEPT ![a] = Append(@, Message(author, content, now))]
    /\ UNCHANGED <<store, deals, ended, threads, online, now, created, timers,
                   etasks, dtasks, gates, bidlog, confirm, rs, readyCount, shadow, tz, pvars, verdict, noops, warnings, gvars>>

\* time passes; the clock starts with the first listing
Tick ==
    /\ created # {} \/ gcreated # {} \/ ptasks # <<>>
    /\ now < MaxTime
    /\ now' = now + 1
    /\ UNCHANGED <<store, deals, ended, history, threads, online, created, timers,
                   etasks, dtasks, gates, bidlog, confirm, rs, readyCount, shadow, tz, pvars, verdict, noops, warnings, gvars>>

(***************************************************************************)
(* Helpers on sequences.                                                   *)
(***************************************************************************)
RemoveAt(s, i) == SubSeq(s, 1, i - 1) \o SubSeq(s, i + 1, Len(s))

(***************************************************************************)
(* End callback: end_auction and send_seller_confirmation.                 *)
(***************************************************************************)
EndedRow(a, result, final_bid, winner_id) ==
    [auction_id |-> a, result |-> result, final_bid |-> final_bid,
     winner_id |-> winner_id]

\* the fields of the row a coroutine has read that it uses after an await
Snapshot(auction) ==
    [seller_id |-> auction.seller_id, starting_bid |-> auction.starting_bid,
     highest_bid |-> auction.highest_bid, highest_bidder |-> auction.highest_bidder]

\* end_auction up to its first await: the row is read, marked ended, and
\* removed at once when the thread is gone
EndAuctionStart(a) ==
    IF store[a] = NoRow
    THEN UNCHANGED <<store, etasks>>
    ELSE IF ~threads[a]
    THEN /\ store' = RemoveActiveAuction(UpdateAuctionStatus(store, a, "ended"), a)
         /\ UNCHANGED etasks
    ELSE /\ store' = UpdateAuctionStatus(store, a, "ended")
         /\ etasks' = [etasks EXCEPT ![a] = Append(@,
                [pc |-> IF store[a].highest_bidder # None THEN "announce" ELSE "nobids",
                 auction |-> Snapshot(store[a])])]

\* end_auction_timer / schedule_auction_end: the sleep is over
EndTimerFire(a, i) ==
    /\ online
    /\ i \in DOMAIN timers[a]
    /\ timers[a][i] <= now
    /\ timers' = [timers EXCEPT ![a] = RemoveAt(@, i)]
    /\ EndAuctionStart(a)
    /\ noops' = IF store[a] = NoRow THEN noops \cup {"end_auction"} ELSE noops
    /\ UNCHANGED <<deals, ended, history, threads, online, now, created, dtasks, gates, bidlog,
                   confirm, rs, readyCount, shadow, tz, pvars, verdict, warnings, gvars>>

\* end_auction with a highest bidder: thread announcement, then the seller's
\* confirmation request
EndAuctionConfirm(a, i, outcome) ==
    /\ online
    /\ i \in DOMAIN etasks[a]
    /\ etasks[a][i].pc = "announce"
    /\ etasks' = [etasks EXCEPT ![a] = RemoveAt(@, i)]
    /\ CASE outcome = "sent" ->
              /\ confirm' = [confirm EXCEPT ![a] = TRUE]
              /\ UNCHANGED store
         [] outcome = "announce_failed" ->
              /\ store' = RemoveActiveAuction(UpdateAuctionStatus(store, a, "expired"), a)
              /\ UNCHANGED confirm
         [] outcome = "dm_failed" ->
              /\ store' = UpdateAuctionStatus(store, a, "expired")
              /\ UNCHANGED confirm
    /\ UNCHANGED <<deals, ended, history, threads, online, now, created, timers,
                   dtasks, gates, bidlog, rs, readyCount, shadow, tz, pvars, verdict, noops, warnings, gvars>>

\* end_auction without a bidder: the no_bids log entry
EndAuctionNoBidsLog(a, i, fetched) ==
    /\ online
    /\ i \in DOMAIN etasks[a]
    /\ etasks[a][i].pc = "nobids"
    /\ IF fetched
       THEN /\ ended' = Append(ended,
                   EndedRow(a, "no_bids", etasks[a][i].auction.starting_bid, 0))
            /\ etasks' = [etasks EXCEPT ![a][i].pc = "nobids_logged"]
            /\ UNCHANGED store
       ELSE /\ store' = RemoveActiveAuction(store, a)
            /\ etasks' = [etasks EXCEPT ![a][i].pc = "delete_thread"]
            /\ UNCHANGED ended
    /\ UNCHANGED <<deals, history, threads, online, now, created, timers, dtasks, gates, bidlog,
                   confirm, rs, readyCount, shadow, tz, pvars, verdict, noops, warnings, gvars>>

\* end_auction without a bidder: the row is removed after the notifications
EndAuctionNoBidsRemove(a, i) ==
    /\ online
    /\ i \in DOMAIN etasks[a]
    /\ etasks[a][i].pc = "nobids_logged"
    /\ store' = RemoveActiveAuction(store, a)
    /\ etasks' = [etasks EXCEPT ![a][i].pc = "delete_thread"]
    /\ UNCHANGED <<deals, ended, history, threads, online, now, created, timers,
                   dtasks, gates, bidlog, confirm, rs, readyCount, shadow, tz, pvars, verdict, noops, warnings, gvars>>

\* end_auction without a bidder: the thread is deleted after the sleep
EndAuctionDeleteThread(a, i) ==
    /\ online
    /\ i \in DOMAIN etasks[a]
    /\ etasks[a][i].pc = "delete_thread"
    /\ etasks' = [etasks EXCEPT ![a] = RemoveAt(@, i)]
    /\ threads' = [threads EXCEPT ![a] = FALSE]
    /\ UNCHANGED <<store, deals, ended, history, online, now, created, timers,
                   dtasks, gates, bidlog, confirm, rs, readyCount, shadow, tz, pvars, verdict, noops, warnings, gvars>>

(***************************************************************************)
(* Seller decision: handle_auction_accept and handle_auction_reject.       *)
(***************************************************************************)
DealRow(channel_id, seller_id, buyer_id, car_name) ==
    [channel_id |-> channel_id, seller_id |-> seller_id, buyer_id |-> buyer_id,
     car_name |-> car_name]

\* the guard of both handlers, up to the status flip
DecisionGate(auction) ==
    IF auction = NoRow THEN "inactive"
    ELSE IF auction.status # "active" /\ auction.status # "ended" THEN "processed"
    ELSE "flipped"

\* the seller's click reaches handle_auction_accept / handle_auction_reject
DeliverDecision(a, kind) ==
    /\ online
    /\ confirm[a]
    /\ Len(gates[a]) < MaxDecisions
    /\ gates' = [gates EXCEPT ![a] = Append(@, DecisionGate(store[a]))]
    /\ IF DecisionGate(store[a]) = "flipped"
       THEN /\ store' = UpdateAuctionStatus(store, a, "closed")
            /\ dtasks' = [dtasks EXCEPT ![a] = Append(@,
                    [kind |-> kind, pc |-> "flipped", auction |-> Snapshot(store[a])])]
       ELSE UNCHANGED <<store, dtasks>>
    /\ UNCHANGED <<deals, ended, history, threads, online, now, created, timers,
                   etasks, bidlog, confirm, rs, readyCount, shadow, tz, pvars, verdict, noops, warnings, gvars>>

\* the except branch of both handlers
RevertStatus(st, a) == UpdateAuctionStatus(st, a, "active")

\* the seller's click reaches a handler whose update_auction_status(closed)
\* raises (the database call fails): the except branch writes the status
\* active, and that write goes through or raises as well
DecisionFlipFails(a, reverted) ==
    /\ online
    /\ confirm[a]
    /\ Len(gates[a]) < MaxDecisions
    /\ DecisionGate(store[a]) = "flipped"
    /\ gates' = [gates EXCEPT ![a] = Append(@, "failed")]
    /\ store' = IF reverted THEN RevertStatus(store, a) ELSE store
    /\ UNCHANGED <<deals, ended, history, threads, online, now, created, timers,
                   etasks, dtasks, bidlog, confirm, rs, readyCount, shadow, tz, pvars, verdict,
                   noops, warnings, gvars>>

\* handle_auction_accept from the flip to add_active_deal
AcceptCreateDeal(a, i, outcome) ==
    /\ online
    /\ i \in DOMAIN dtasks[a]
    /\ dtasks[a][i].kind = "accept"
    /\ dtasks[a][i].pc = "flipped"
    /\ CASE outcome = "failed" ->
              /\ store' = RevertStatus(store, a)
              /\ dtasks' = [dtasks EXCEPT ![a] = RemoveAt(@, i)]
              /\ UNCHANGED deals
         [] outcome = "noguild" ->
              /\ dtasks[a][i].auction.highest_bidder # None
              /\ dtasks' = [dtasks EXCEPT ![a] = RemoveAt(@, i)]
              /\ UNCHANGED <<store, deals>>
         [] outcome = "created" ->
              /\ dtasks[a][i].auction.highest_bidder # None
              /\ deals' = Append(deals,
                    DealRow(Len(deals) + 1, dtasks[a][i].auction.seller_id,
                            dtasks[a][i].auction.highest_bidder, a))
              /\ dtasks' = [dtasks EXCEPT ![a][i].pc = "dealt"]
              /\ UNCHANGED store
    /\ UNCHANGED <<ended, history, threads, online, now, created, timers, etasks,
                   gates, bidlog, confirm, rs, readyCount, shadow, tz, pvars, verdict, noops, warnings, gvars>>

\* handle_auction_accept from the deal channel messages to the ended log
AcceptNotify(a, i, outcome) ==
    /\ online
    /\ i \in DOMAIN dtasks[a]
    /\ dtasks[a][i].kind = "accept"
    /\ dtasks[a][i].pc = "dealt"
    /\ CASE outcome = "failed" ->
              /\ store' = RevertStatus(store, a)
              /\ dtasks' = [dtasks EXCEPT ![a] = RemoveAt(@, i)]
              /\ UNCHANGED ended
         [] outcome = "logged" ->
              /\ ended' = Append(ended,
                    EndedRow(a, "accepted", dtasks[a][i].auction.highest_bid,
                             dtasks[a][i].auction.highest_bidder))
              /\ dtasks' = [dtasks EXCEPT ![a][i].pc = "logged"]
              /\ UNCHANGED store
    /\ UNCHANGED <<deals, history, threads, online, now, created, timers, etasks,
                   gates, bidlog, confirm, rs, readyCount, shadow, tz, pvars, verdict, noops, warnings, gvars>>

\* handle_auction_accept: the row is removed and the thread deleted
AcceptRemove(a, i) ==
    /\ online
    /\ i \in DOMAIN dtasks[a]
    /\ dtasks[a][i].kind = "accept"
    /\ dtasks[a][i].pc = "logged"
    /\ store' = RemoveActiveAuction(store, a)
    /\ dtasks' = [dtasks EXCEPT ![a] = RemoveAt(@, i)]
    /\ threads' = [threads EXCEPT ![a] = FALSE]
    /\ UNCHANGED <<deals, ended, history, online, now, created, timers, etasks,
                   gates, bidlog, confirm, rs, readyCount, shadow, tz, pvars, verdict, noops, warnings, gvars>>

\* handle_auction_reject after the flip
RejectFinish(a, i, outcome) ==
    /\ online
    /\ i \in DOMAIN dtasks[a]
    /\ dtasks[a][i].kind = "reject"
    /\ dtasks[a][i].pc = "flipped"
    /\ CASE outcome = "failed" ->
              /\ store' = RevertStatus(store, a)
              /\ dtasks' = [dtasks EXCEPT ![a] = RemoveAt(@, i)]
              /\ UNCHANGED <<ended, threads>>
         [] outcome \in {"logged", "unlogged"} ->
              /\ dtasks[a][i].auction.highest_bidder # None
              /\ ended' = IF outcome = "unlogged" THEN ended
                          ELSE Append(ended,
                    EndedRow(a, "rejected", dtasks[a][i].auction.highest_bid,
                             dtasks[a][i].auction.highest_bidder))
              /\ store' = RemoveActiveAuction(store, a)
              /\ dtasks' = [dtasks EXCEPT ![a] = RemoveAt(@, i)]
              /\ threads' = [threads EXCEPT ![a] = FALSE]
    /\ UNCHANGED <<deals, history, online, now, created, timers, etasks, gates, bidlog,
                   confirm, rs, readyCount, shadow, tz, pvars, verdict, noops, warnings, gvars>>

(***************************************************************************)
(* Recovery: restore_active_auctions and process_missed_bids.              *)
(***************************************************************************)
MissedBid(amount, user_id, timestamp) ==
    [amount |-> amount, user_id |-> user_id, timestamp |-> timestamp]

\* faulty variant: the scan without its seller skip
IsCandidateSellerIncluded(m, last_bot_message_time, auction_data, end_time) ==
    LET clean_content == Strip(m.content)
        clean_bid == CleanBid(clean_content)
        bid_amount == ToInt(clean_bid)
    IN  /\ m.author # Bot
        /\ ~(m.created_at > end_time)
        /\ ~(last_bot_message_time # <<>> /\ m.created_at <= last_bot_message_time[1])
        /\ clean_content # <<>>
        /\ IsDigit(clean_bid)
        /\ ~IntRaises(clean_bid)
        /\ ~(bid_amount <= 0 \/ bid_amount > MAX_BID)
        /\ bid_amount > auction_data.highest_bid
        /\ auction_data.highest_bidder # m.author

\* faulty variant: the scan without its look at end_time
IsCandidateAnyTime(m, last_bot_message_time, auction_data, end_time) ==
    LET clean_content == Strip(m.content)
        clean_bid == CleanBid(clean_content)
        bid_amount == ToInt(clean_bid)
    IN  /\ m.author # Bot
        /\ m.author # auction_data.seller_id
        /\ ~(last_bot_message_time # <<>> /\ m.created_at <= last_bot_message_time[1])
        /\ clean_content # <<>>
        /\ IsDigit(clean_bid)
        /\ ~IntRaises(clean_bid)
        /\ ~(bid_amount <= 0 \/ bid_amount > MAX_BID)
        /\ bid_amount > auction_data.highest_bid
        /\ auction_data.highest_bidder # m.author

\* whether process_missed_bids keeps a history message as a bid candidate
IsCandidate(m, last_bot_message_time, auction_data, end_time) ==
    LET clean_content == Strip(m.content)
        clean_bid == CleanBid(clean_content)
        bid_amount == ToInt(clean_bid)
    IN  /\ m.author # Bot
        /\ m.author # auction_data.seller_id
        /\ ~(m.created_at > end_time)
        /\ ~(last_bot_message_time # <<>> /\ m.created_at <= last_bot_message_time[1])
        /\ clean_content # <<>>
        /\ IsDigit(clean_bid)
        /\ ~IntRaises(clean_bid)
        /\ ~(bid_amount <= 0 \/ bid_amount > MAX_BID)
        /\ bid_amount > auction_data.highest_bid
        /\ auction_data.highest_bidder # m.author

\* the scan of the thread history, oldest first, from message i on
RECURSIVE ScanFrom(_, _, _, _, _)
ScanFrom(hist, i, last_bot_message_time, auction_data, end_time) ==
    IF i > Len(hist) THEN <<>>
    ELSE IF hist[i].author = Bot
        THEN ScanFrom(hist, i + 1, <<hist[i].created_at>>, auction_data, end_time)
    ELSE IF IsCandidate(hist[i], last_bot_message_time, auction_data, end_time)
        THEN <<MissedBid(BidAmount(hist[i].content), hist[i].author, hist[i].created_at)>>
             \o ScanFrom(hist, i + 1, last_bot_message_time, auction_data, end_time)
    ELSE ScanFrom(hist, i + 1, last_bot_message_time, auction_data, end_time)

ScanHistory(hist, auction_data, end_time) ==
    ScanFrom(hist, 1, <<>>, auction_data, end_time)

\* missed_bids.sort(key = timestamp): a stable sort
RECURSIVE InsertByTimestamp(_, _)
InsertByTimestamp(sorted, b) ==
    IF sorted = <<>> THEN <<b>>
    ELSE IF b.timestamp < Head(sorted).timestamp THEN <<b>> \o sorted
    ELSE <<Head(sorted)>> \o InsertByTimestamp(Tail(sorted), b)

RECURSIVE SortByTimestamp(_)
SortByTimestamp(bids) ==
    IF bids = <<>> THEN <<>>
    ELSE InsertByTimestamp(SortByTimestamp(SubSeq(bids, 1, Len(bids) - 1)),
                           bids[Len(bids)])

\* faulty variant: a candidate of the scan is applied without the re-check
StillValidUnchecked(bid_info, current_auction) == TRUE

\* the re-check the replay loop makes against the row it has just read
StillValid(bid_info, current_auction) ==
    bid_info.amount > current_auction.highest_bid

\* the replay loop up to its next await (the outbid DM) or its end; writes
\* are the calls of update_auction_bid it has made so far
RECURSIVE ApplyLoop(_, _, _, _)
ApplyLoop(st, a, bids, writes) ==
    IF bids = <<>> \/ st[a] = NoRow
    THEN [store |-> st, rest |-> <<>>, awaiting |-> FALSE, writes |-> writes]
    ELSE IF StillValid(Head(bids), st[a])
    THEN LET old_highest_bidder == st[a].highest_bidder
             updated == UpdateAuctionBid(st, a, Head(bids).amount, Head(bids).user_id)
             logged == Append(writes,
                    BidWrite(st[a], Head(bids).amount, Head(bids).user_id, "replay"))
         IN  IF old_highest_bidder # None /\ old_highest_bidder # Head(bids).user_id
             THEN [store |-> updated, rest |-> Tail(bids), awaiting |-> TRUE,
                   writes |-> logged]
             ELSE ApplyLoop(updated, a, Tail(bids), logged)
    ELSE ApplyLoop(st, a, Tail(bids), writes)

ApplyRun(st, a, bids) == ApplyLoop(st, a, bids, <<>>)

RECURSIVE SetToSeq(_)
SetToSeq(S) ==
    IF S = {} THEN <<>>
    ELSE LET x == CHOOSE y \in S : TRUE IN <<x>> \o SetToSeq(S \ {x})

RestoreTask(pc, all, queue, current_time, missed) ==
    [pc |-> pc, all |-> all, queue |-> queue, current_time |-> current_time,
     missed |-> missed]

\* on_ready -> restore_active_auctions: the table is read once
Ready ==
    /\ rs.pc = "idle"
    /\ grs.pc = "idle"
    /\ readyCount' = readyCount + 1
    /\ online' = TRUE
    /\ rs' = RestoreTask("loop", store,
                         SetToSeq({a \in AuctionIds : store[a] # NoRow}), now, <<>>)
    /\ UNCHANGED <<store, deals, ended, history, threads, now, created, timers,
                   etasks, dtasks, gates, bidlog, confirm, shadow, tz, pvars, verdict, noops, warnings, gvars>>

\* on_ready, at a process start or a reconnect
OnReady ==
    /\ readyCount < MaxReady
    /\ Ready

\* restore_active_giveaways as on_ready starts it after the auctions: the
\* table and the clock are read once; nothing is done for an empty table
RestoreGiveawaysTask ==
    IF \A g \in GiveawayIds : giveaways[g] = NoRow THEN IdleRestore
    ELSE [pc |-> "loop", all |-> giveaways,
          queue |-> SetToSeq({g \in GiveawayIds : giveaways[g] # NoRow}),
          current_time |-> now]

\* restore_active_auctions: the next row of the loop, up to its first await;
\* after the last row on_ready goes on to restore_active_giveaways
RestoreNext ==
    /\ online
    /\ rs.pc = "loop"
    /\ IF rs.queue = <<>>
       THEN /\ rs' = IdleRestore
            /\ grs' = RestoreGiveawaysTask
            /\ UNCHANGED <<store, timers>>
       ELSE LET a == Head(rs.queue)
                auction_data == rs.all[a]
                skip == [rs EXCEPT !.queue = Tail(@)]
            IN  /\ UNCHANGED grs
                /\ IF auction_data.status # "active"
                   THEN /\ store' = RemoveActiveAuction(store, a)
                        /\ rs' = skip
                        /\ UNCHANGED timers
                   ELSE IF threads[a]
                   THEN /\ rs' = [rs EXCEPT !.pc = "scan"]
                        /\ UNCHANGED <<store, timers>>
                   ELSE IF rs.current_time < auction_data.end_time
                   THEN /\ store' = RemoveActiveAuction(store, a)
                        /\ rs' = skip
                        /\ UNCHANGED timers
                   ELSE /\ timers' = [timers EXCEPT ![a] = Append(@, now)]
                        /\ rs' = skip
                        /\ UNCHANGED store
    /\ UNCHANGED <<deals, ended, history, threads, online, now, created, etasks,
                   dtasks, gates, bidlog, confirm, readyCount, shadow, tz, pvars, verdict, noops, warnings,
                   giveaways, gcreated, gtimers, gtasks, gannounce, joins>>

\* what follows process_missed_bids for the row at the head of the queue
AfterReplay(a, run) ==
    /\ store' = run.store
    /\ bidlog' = [bidlog EXCEPT ![a] = @ \o run.writes]
    /\ IF run.awaiting
       THEN /\ rs' = [rs EXCEPT !.pc = "apply", !.missed = run.rest]
            /\ UNCHANGED timers
       ELSE IF rs.current_time < rs.all[a].end_time
       THEN /\ rs' = [rs EXCEPT !.pc = "schedule", !.missed = <<>>]
            /\ UNCHANGED timers
       ELSE /\ rs' = [rs EXCEPT !.pc = "loop", !.missed = <<>>, !.queue = Tail(@)]
            /\ timers' = [timers EXCEPT ![a] = Append(@, now)]

\* the scan reaches the comparison of message.created_at with end_time: some
\* message is neither the bot's nor the seller's
ReachesEndTimeCheck(hist, auction_data) ==
    \E k \in 1..Len(hist) :
        hist[k].author # Bot /\ hist[k].author # auction_data.seller_id

\* process_missed_bids: the history is read, filtered and sorted, and the
\* replay loop starts.  end_time is a naive datetime (fromisoformat of the
\* stored text).  Where the library hands out timezone-aware created_at
\* values, message.created_at > end_time raises TypeError at the first
\* message that reaches it; the function's own except clause swallows it and
\* no bid is applied.  Where created_at is naive the scan completes.
RestoreScan(aware) ==
    /\ online
    /\ rs.pc = "scan"
    /\ LET a == Head(rs.queue)
           raised == aware /\ threads[a] /\ ReachesEndTimeCheck(history[a], rs.all[a])
           missed_bids == IF threads[a] /\ ~raised
                          THEN SortByTimestamp(ScanHistory(history[a], rs.all[a],
                                                           rs.all[a].end_time))
                          ELSE <<>>
       IN  /\ aware => raised
           /\ AfterReplay(a, ApplyRun(store, a, missed_bids))
    /\ UNCHANGED <<deals, ended, history, threads, online, now, created, etasks,
                   dtasks, gates, confirm, readyCount, shadow, tz, pvars, verdict, noops, warnings, gvars>>

\* process_missed_bids: reading thread.history raises (the thread cannot be
\* read); the function's own except clause swallows the error, no bid is
\* applied and restore_active_auctions goes on with the row
RestoreScanFailed ==
    /\ online
    /\ rs.pc = "scan"
    /\ AfterReplay(Head(rs.queue), ApplyRun(store, Head(rs.queue), <<>>))
    /\ UNCHANGED <<deals, ended, history, threads, online, now, created, etasks,
                   dtasks, gates, confirm, readyCount, shadow, tz, pvars, verdict, noops, warnings, gvars>>

\* process_missed_bids: the replay loop resumes after an outbid DM
RestoreApply ==
    /\ online
    /\ rs.pc = "apply"
    /\ AfterReplay(Head(rs.queue), ApplyRun(store, Head(rs.queue), rs.missed))
    /\ UNCHANGED <<deals, ended, history, threads, online, now, created, etasks,
                   dtasks, gates, confirm, readyCount, shadow, tz, pvars, verdict, noops, warnings, gvars>>

\* restore_active_auctions: the end timer sleeps remaining_time, the stored
\* end_time minus the utcnow() read when the restore began, from the moment
\* the task is created; the warning timer sleeps WarningLead less
RestoreSchedule ==
    /\ online
    /\ rs.pc = "schedule"
    /\ LET a == Head(rs.queue)
           remaining_time == rs.all[a].end_time - rs.current_time
           warning_delay == remaining_time - WarningLead
       IN  /\ timers' = [timers EXCEPT ![a] = Append(@, now + remaining_time)]
           /\ warnings' = IF warning_delay > 0
                           THEN [warnings EXCEPT ![a] = Append(@, now + warning_delay)]
                           ELSE warnings
    /\ rs' = [rs EXCEPT !.pc = "loop", !.queue = Tail(@)]
    /\ UNCHANGED <<store, deals, ended, history, threads, online, now, created,
                   etasks, dtasks, gates, bidlog, confirm, readyCount, shadow, tz, pvars, verdict, noops, gvars>>

\* faulty variant: the warning without its look at the row
WarningPostsUnchecked(auction, thread) == thread

\* whether auction_ending_soon_warning posts, given the row it has read and
\* whether the thread is found
WarningPosts(auction, thread) == auction # NoRow /\ thread

\* auction_ending_soon_warning: the sleep is over; the warning is posted in
\* the thread when the row and the thread are still there
WarningFire(a, i) ==
    /\ online
    /\ i \in DOMAIN warnings[a]
    /\ warnings[a][i] <= now
    /\ warnings' = [warnings EXCEPT ![a] = RemoveAt(@, i)]
    /\ history' = IF WarningPosts(store[a], threads[a])
                  THEN [history EXCEPT ![a] = Append(@, Message(Bot, <<>>, now))]
                  ELSE history
    /\ noops' = IF store[a] = NoRow THEN noops \cup {"auction_ending_soon_warning"}
                ELSE noops
    /\ UNCHANGED <<store, deals, ended, threads, online, now, created, timers,
                   etasks, dtasks, gates, bidlog, confirm, rs, readyCount, shadow, tz, pvars, verdict, gvars>>

(***************************************************************************)
(* Giveaways (commands/giveaway.py).                                       *)
(***************************************************************************)
\* the row create_giveaway_directly stores
NewGiveaway(host_id, end_time) ==
    [host_id |-> host_id, end_time |-> end_time, participants |-> <<>>]

\* UPDATE active_giveaways SET participants WHERE giveaway_id
UpdateGiveawayParticipants(gs, g, participants) ==
    IF gs[g] = NoRow THEN gs ELSE [gs EXCEPT ![g].participants = participants]

\* DELETE FROM active_giveaways WHERE giveaway_id
RemoveActiveGiveaway(gs, g) == [gs EXCEPT ![g] = NoRow]

\* user_id in giveaway['participants']
InList(x, list) == \E k \in 1..Len(list) : list[k] = x

\* create_giveaway_directly: the message with the join button, the row and
\* the end timer
CreateGiveaway(g, duration) ==
    /\ online
    /\ g \notin gcreated
    /\ now + duration <= MaxTime
    /\ gcreated' = gcreated \cup {g}
    /\ giveaways' = [giveaways EXCEPT ![g] = NewGiveaway(Host, now + duration)]
    /\ gtimers' = [gtimers EXCEPT ![g] = Append(@, now + duration)]
    /\ UNCHANGED <<store, deals, ended, history, threads, online, now, created, timers,
                   etasks, dtasks, gates, bidlog, confirm, rs, readyCount, shadow, tz, pvars, verdict, noops,
                   warnings, gtasks, gannounce, joins, grs>>

\* faulty variant: the join without its already-joined check
JoinAnswerUnchecked(giveaway, user_id) ==
    IF giveaway = NoRow THEN "inactive" ELSE "joined"

\* what JoinGiveawayView.join_giveaway answers the click of user_id
JoinAnswer(giveaway, user_id) ==
    IF giveaway = NoRow THEN "inactive"
    ELSE IF InList(user_id, giveaway.participants) THEN "already"
    ELSE "joined"

\* the participants join_giveaway writes back
JoinedParticipants(giveaway, user_id) ==
    IF JoinAnswer(giveaway, user_id) = "joined"
    THEN Append(giveaway.participants, user_id)
    ELSE giveaway.participants

\* JoinGiveawayView.join_giveaway: the row is read, checked and written back
\* without an await in between
JoinGiveaway(g, user_id) ==
    /\ online
    /\ g \in gcreated
    /\ Len(joins) < MaxJoins
    /\ joins' = Append(joins, [giveaway_id |-> g, user_id |-> user_id,
                               answer |-> JoinAnswer(giveaways[g], user_id)])
    /\ giveaways' = IF giveaways[g] = NoRow THEN giveaways
                    ELSE UpdateGiveawayParticipants(giveaways, g,
                            JoinedParticipants(giveaways[g], user_id))
    /\ UNCHANGED <<store, deals, ended, history, threads, online, now, created, timers,
                   etasks, dtasks, gates, bidlog, confirm, rs, readyCount, shadow, tz, pvars, verdict, noops,
                   warnings, gcreated, gtimers, gtasks, gannounce, grs>>

Announcement(g, kind, winner_id) ==
    [giveaway_id |-> g, kind |-> kind, winner_id |-> winner_id]

\* faulty variant: the winner is drawn from all users, not from the list
PickWinnerFromAll(participants, k) == IF k = 1 THEN "B" ELSE "A"

\* random.choice(giveaway['participants']), the draw falling on position k
PickWinner(participants, k) == participants[k]

\* end_giveaway up to its first await: the row is read and the giveaways
\* channel, a fixed channel of the server, is found; with participants a
\* winner is drawn and the user lookups begin, without participants the
\* no-one-joined message is sent
EndGiveawayStart(g, k) ==
    IF giveaways[g] = NoRow
    THEN /\ k = 1
         /\ UNCHANGED <<gtasks, gannounce>>
    ELSE IF giveaways[g].participants # <<>>
    THEN /\ k \in 1..Len(giveaways[g].participants)
         /\ gtasks' = [gtasks EXCEPT ![g] = Append(@,
                [pc |-> "lookup", giveaway |-> giveaways[g],
                 winner_id |-> PickWinner(giveaways[g].participants, k)])]
         /\ UNCHANGED gannounce
    ELSE /\ k = 1
         /\ gtasks' = [gtasks EXCEPT ![g] = Append(@,
                [pc |-> "nobody", giveaway |-> giveaways[g], winner_id |-> None])]
         /\ gannounce' = gannounce \cup {Announcement(g, "nobody", None)}

\* end_giveaway_timer: the sleep is over
EndGiveawayTimerFire(g, i, k) ==
    /\ online
    /\ i \in DOMAIN gtimers[g]
    /\ gtimers[g][i] <= now
    /\ gtimers' = [gtimers EXCEPT ![g] = RemoveAt(@, i)]
    /\ EndGiveawayStart(g, k)
    /\ noops' = IF giveaways[g] = NoRow THEN noops \cup {"end_giveaway"} ELSE noops
    /\ UNCHANGED <<store, deals, ended, history, threads, online, now, created, timers,
                   etasks, dtasks, gates, bidlog, confirm, rs, readyCount, shadow, tz, pvars, verdict,
                   warnings, giveaways, gcreated, joins, grs>>

\* end_giveaway: winner and host are fetched and the winner is announced in
\* the channel; when a lookup or the send raises, the finally clause removes
\* the row
EndGiveawayAnnounce(g, i, sent) ==
    /\ online
    /\ i \in DOMAIN gtasks[g]
    /\ gtasks[g][i].pc = "lookup"
    /\ IF sent
       THEN /\ gannounce' = gannounce \cup
                    {Announcement(g, "winner", gtasks[g][i].winner_id)}
            /\ gtasks' = [gtasks EXCEPT ![g][i].pc = "room"]
            /\ UNCHANGED giveaways
       ELSE /\ giveaways' = RemoveActiveGiveaway(giveaways, g)
            /\ gtasks' = [gtasks EXCEPT ![g] = RemoveAt(@, i)]
            /\ UNCHANGED gannounce
    /\ UNCHANGED <<store, deals, ended, history, threads, online, now, created, timers,
                   etasks, dtasks, gates, bidlog, confirm, rs, readyCount, shadow, tz, pvars, verdict, noops,
                   warnings, gcreated, gtimers, joins, grs>>

\* create_giveaway_claim_room up to add_active_deal: without a mutual guild,
\* or when the channel cannot be created, it returns and the finally clause
\* of end_giveaway removes the row
EndGiveawayClaimRoom(g, i, created_room) ==
    /\ online
    /\ i \in DOMAIN gtasks[g]
    /\ gtasks[g][i].pc = "room"
    /\ IF created_room
       THEN /\ deals' = Append(deals,
                    DealRow(Len(deals) + 1, gtasks[g][i].giveaway.host_id,
                            gtasks[g][i].winner_id, g))
            /\ gtasks' = [gtasks EXCEPT ![g][i].pc = "claim"]
            /\ UNCHANGED giveaways
       ELSE /\ giveaways' = RemoveActiveGiveaway(giveaways, g)
            /\ gtasks' = [gtasks EXCEPT ![g] = RemoveAt(@, i)]
            /\ UNCHANGED deals
    /\ UNCHANGED <<store, ended, history, threads, online, now, created, timers,
                   etasks, dtasks, gates, bidlog, confirm, rs, readyCount, shadow, tz, pvars, verdict, noops,
                   warnings, gcreated, gtimers, gannounce, joins, grs>>

\* end_giveaway: after the claim room messages, or after the no-one-joined
\* message, the finally clause removes the row
EndGiveawayRemove(g, i) ==
    /\ online
    /\ i \in DOMAIN gtasks[g]
    /\ gtasks[g][i].pc \in {"claim", "nobody"}
    /\ giveaways' = RemoveActiveGiveaway(giveaways, g)
    /\ gtasks' = [gtasks EXCEPT ![g] = RemoveAt(@, i)]
    /\ UNCHANGED <<store, deals, ended, history, threads, online, now, created, timers,
                   etasks, dtasks, gates, bidlog, confirm, rs, readyCount, shadow, tz, pvars, verdict, noops,
                   warnings, gcreated, gtimers, gannounce, joins, grs>>

\* restore_active_giveaways: the next row of the loop, up to its first await;
\* an expired giveaway is ended at once
RestoreGiveawaysNext ==
    /\ online
    /\ grs.pc = "loop"
    /\ IF grs.queue = <<>>
       THEN /\ grs' = IdleRestore
            /\ UNCHANGED gtimers
       ELSE LET g == Head(grs.queue)
            IN  IF grs.current_time >= grs.all[g].end_time
                THEN /\ gtimers' = [gtimers EXCEPT ![g] = Append(@, now)]
                     /\ grs' = [grs EXCEPT !.queue = Tail(@)]
                ELSE /\ grs' = [grs EXCEPT !.pc = "button"]
                     /\ UNCHANGED gtimers
    /\ UNCHANGED <<store, deals, ended, history, threads, online, now, created, timers,
                   etasks, dtasks, gates, bidlog, confirm, rs, readyCount, shadow, tz, pvars, verdict, noops,
                   warnings, giveaways, gcreated, gtasks, gannounce, joins>>

\* restore_active_giveaways: after the join button is attached again, the
\* end timer sleeps the remaining time
RestoreGiveawaySchedule ==
    /\ online
    /\ grs.pc = "button"
    /\ LET g == Head(grs.queue)
           remaining_seconds == grs.all[g].end_time - grs.current_time
       IN  gtimers' = [gtimers EXCEPT ![g] = Append(@, now + remaining_seconds)]
    /\ grs' = [grs EXCEPT !.pc = "loop", !.queue = Tail(@)]
    /\ UNCHANGED <<store, deals, ended, history, threads, online, now, created, timers,
                   etasks, dtasks, gates, bidlog, confirm, rs, readyCount, shadow, tz, pvars, verdict, noops,
                   warnings, giveaways, gcreated, gtasks, gannounce, joins>>

(***************************************************************************)
(* Environment.                                                            *)
(***************************************************************************)
\* the process stops: timers and coroutines are lost, the tables are kept
Crash ==
    /\ online
    /\ readyCount < MaxReady
    /\ online' = FALSE
    /\ timers' = [a \in AuctionIds |-> <<>>]
    /\ etasks' = [a \in AuctionIds |-> <<>>]
    /\ dtasks' = [a \in AuctionIds |-> <<>>]
    /\ rs' = IdleRestore
    /\ warnings' = [a \in AuctionIds |-> <<>>]
    /\ gtimers' = [g \in GiveawayIds |-> <<>>]
    /\ gtasks' = [g \in GiveawayIds |-> <<>>]
    /\ grs' = IdleRestore
    /\ UNCHANGED <<store, deals, ended, history, threads, now, created, gates, bidlog,
                   confirm, readyCount, shadow, tz, pvars, verdict, noops, giveaways, gcreated, gannounce, joins>>

\* a moderator deletes the auction thread
ThreadDeleted(a) ==
    /\ threads[a]
    /\ threads' = [threads EXCEPT ![a] = FALSE]
    /\ UNCHANGED <<store, deals, ended, history, online, now, created, timers,
                   etasks, dtasks, gates, bidlog, confirm, rs, readyCount, shadow, tz, pvars, verdict, noops, warnings, gvars>>

Next ==
    \/ \E a \in AuctionIds, b \in StartingBids, d \in Durations : CreateAuction(a, b, d)
    \/ \E a \in AuctionIds, u \in Users, c \in ThreadContents :
          Room(a, MaxMessages) /\ HandleAuctionBid(a, u, c)
    \/ \E a \in AuctionIds, u \in Users, c \in ThreadContents :
          Room(a, MaxMessages) /\ PostOffline(a, u, c)
    \/ Tick
    \/ \E a \in AuctionIds, i \in 1..(MaxReady + 1) : EndTimerFire(a, i)
    \/ \E a \in AuctionIds, i \in 1..(MaxReady + 1),
          o \in {"sent", "announce_failed", "dm_failed"} : EndAuctionConfirm(a, i, o)
    \/ \E a \in AuctionIds, i \in 1..(MaxReady + 1), f \in BOOLEAN :
          EndAuctionNoBidsLog(a, i, f)
    \/ \E a \in AuctionIds, i \in 1..(MaxReady + 1) : EndAuctionNoBidsRemove(a, i)
    \/ \E a \in AuctionIds, i \in 1..(MaxReady + 1) : EndAuctionDeleteThread(a, i)
    \/ \E a \in AuctionIds, k \in {"accept", "reject"} : DeliverDecision(a, k)
    \/ \E a \in AuctionIds, i \in 1..MaxDecisions,
          o \in {"failed", "noguild", "created"} : AcceptCreateDeal(a, i, o)
    \/ \E a \in AuctionIds, i \in 1..MaxDecisions, o \in {"failed", "logged"} :
          AcceptNotify(a, i, o)
    \/ \E a \in AuctionIds, i \in 1..MaxDecisions : AcceptRemove(a, i)
    \/ \E a \in AuctionIds, i \in 1..MaxDecisions,
          o \in {"failed", "logged", "unlogged"} : RejectFinish(a, i, o)
    \/ OnReady
    \/ RestoreNext
    \/ \E aware \in BOOLEAN : RestoreScan(aware)
    \/ RestoreScanFailed
    \/ RestoreApply
    \/ RestoreSchedule
    \/ \E a \in AuctionIds, i \in 1..MaxReady : WarningFire(a, i)
    \/ Crash
    \/ \E a \in AuctionIds : ThreadDeleted(a)

Spec == Init /\ [][Next]_vars

\* user messages of one thread in the bidding runs
BidRoom == MaxMessages + 2

\* what users post in the bidding runs
BidPosts == ({"A", "B"} \X Amounts) \cup ({Seller} \X {C200})

\* A and B are interchangeable: the first of them to post is called A
FirstIsA(a, author) ==
    author = "B" => \E k \in 1..Len(history[a]) : history[a][k].author = "A"

\* bidding and recovery alone, while the listing runs: the handlers that call
\* update_auction_bid, with the restarts that make process_missed_bids run,
\* over longer threads and more amounts
NextBid ==
    \/ \E a \in AuctionIds, b \in StartingBids, d \in Durations : CreateAuction(a, b, d)
    \/ \E a \in AuctionIds, p \in BidPosts :
          Room(a, BidRoom) /\ FirstIsA(a, p[1]) /\ HandleAuctionBid(a, p[1], p[2])
    \/ \E a \in AuctionIds, p \in BidPosts :
          Room(a, BidRoom) /\ FirstIsA(a, p[1]) /\ PostOffline(a, p[1], p[2])
    \/ OnReady
    \/ RestoreNext
    \/ \E aware \in BOOLEAN : RestoreScan(aware)
    \/ RestoreApply
    \/ RestoreSchedule
    \/ Crash

\* a host whose local time is UTC
InitUtc == Init /\ tz = 0
InitAhead == Init /\ tz = 1

SpecBid == InitUtc /\ [][NextBid]_vars

\* A and B are interchangeable: the first of them to click is called A
FirstJoinIsA(user_id) ==
    user_id = "B" => \E j \in 1..Len(joins) : joins[j].user_id = "A"

\* the giveaways alone: creation, joins, the end callback and the restarts
NextGiveaway ==
    \/ \E g \in GiveawayIds, d \in GiveawayDurations : CreateGiveaway(g, d)
    \/ \E g \in GiveawayIds, u \in Joiners : FirstJoinIsA(u) /\ JoinGiveaway(g, u)
    \/ Tick
    \/ \E g \in GiveawayIds, i \in 1..(MaxReady + 1), k \in 1..MaxJoins :
          EndGiveawayTimerFire(g, i, k)
    \/ \E g \in GiveawayIds, i \in 1..(MaxReady + 1), sent \in BOOLEAN :
          EndGiveawayAnnounce(g, i, sent)
    \/ \E g \in GiveawayIds, i \in 1..(MaxReady + 1), c \in BOOLEAN :
          EndGiveawayClaimRoom(g, i, c)
    \/ \E g \in GiveawayIds, i \in 1..(MaxReady + 1) : EndGiveawayRemove(g, i)
    \/ OnReady
    \/ RestoreNext
    \/ RestoreGiveawaysNext
    \/ RestoreGiveawaySchedule
    \/ Crash

\* giveaways read the clock with utcnow() only
SpecGiveaway == InitUtc /\ [][NextGiveaway]_vars

\* the listing from its creation to the seller's decision, without restarts,
\* with database failures at the status flip
NextDecision ==
    \/ \E a \in AuctionIds, b \in StartingBids, d \in Durations : CreateAuction(a, b, d)
    \/ \E a \in AuctionIds, u \in Users, c \in ThreadContents :
          Room(a, MaxMessages) /\ HandleAuctionBid(a, u, c)
    \/ Tick
    \/ \E a \in AuctionIds, i \in 1..(MaxReady + 1) : EndTimerFire(a, i)
    \/ \E a \in AuctionIds, i \in 1..(MaxReady + 1),
          o \in {"sent", "announce_failed", "dm_failed"} : EndAuctionConfirm(a, i, o)
    \/ \E a \in AuctionIds, i \in 1..(MaxReady + 1), f \in BOOLEAN :
          EndAuctionNoBidsLog(a, i, f)
    \/ \E a \in AuctionIds, i \in 1..(MaxReady + 1) : EndAuctionNoBidsRemove(a, i)
    \/ \E a \in AuctionIds, i \in 1..(MaxReady + 1) : EndAuctionDeleteThread(a, i)
    \/ \E a \in AuctionIds, k \in {"accept", "reject"} : DeliverDecision(a, k)
    \/ \E a \in AuctionIds, r \in BOOLEAN : DecisionFlipFails(a, r)
    \/ \E a \in AuctionIds, i \in 1..MaxDecisions,
          o \in {"failed", "noguild", "created"} : AcceptCreateDeal(a, i, o)
    \/ \E a \in AuctionIds, i \in 1..MaxDecisions, o \in {"failed", "logged"} :
          AcceptNotify(a, i, o)
    \/ \E a \in AuctionIds, i \in 1..MaxDecisions : AcceptRemove(a, i)
    \/ \E a \in AuctionIds, i \in 1..MaxDecisions,
          o \in {"failed", "logged", "unlogged"} : RejectFinish(a, i, o)

SpecDecision == InitUtc /\ [][NextDecision]_vars

\* the seller's submissions of the listing form, the uploads and the timeouts
NextPending ==
    \/ \E b \in StartingBids, d \in Durations : SubmitListing(b, d)
    \/ \E a \in AuctionIds : UploadImage(a)
    \/ UploadImageFailed
    \/ \E i \in 1..MaxSubmissions : ListingTimeout(i)
    \/ Tick

SpecPending == InitUtc /\ [][NextPending]_vars

\* one auction through a downtime and two recoveries: a start after a crash
\* and a reconnect
NextMarker ==
    \/ \E a \in AuctionIds, b \in StartingBids, d \in Durations : CreateAuction(a, b, d)
    \/ \E a \in AuctionIds, u \in Users, c \in ThreadContents :
          Room(a, MaxMessages) /\ PostOffline(a, u, c)
    \/ Tick
    \/ Crash
    \/ readyCount < MaxReconnects /\ Ready
    \/ RestoreNext
    \/ RestoreScan(FALSE)
    \/ RestoreScanFailed
    \/ RestoreApply
    \/ RestoreSchedule
    \/ \E a \in AuctionIds, i \in 1..(MaxReconnects + 1) : WarningFire(a, i)

SpecMarker == InitAhead /\ [][NextMarker]_vars

\* the same runs on a host whose local time is UTC: the stored end_time is
\* reached within the run, users post after it, and no warning is due
NextLate ==
    \/ \E a \in AuctionIds, b \in StartingBids, d \in Durations : CreateAuction(a, b, d)
    \/ \E a \in AuctionIds, u \in Users, c \in ThreadContents :
          Room(a, MaxMessages) /\ PostOffline(a, u, c)
    \/ Tick
    \/ Crash
    \/ readyCount < MaxReconnects /\ Ready
    \/ RestoreNext
    \/ RestoreScan(FALSE)
    \/ RestoreScanFailed
    \/ RestoreApply
    \/ RestoreSchedule

SpecLate == InitUtc /\ [][NextLate]_vars

\* a message of punctuation only
CSign == <<"$">>

\* what users post in the validation runs
ValidatorContents == Amounts \cup Malformed \cup {CSign, CSup}

\* handle_auction_bid on one message, with what it decided kept for inspection
ValidateBid(a, author, content) ==
    /\ store[a] # NoRow
    /\ BidHandled(a, author, content)
    /\ verdict' = [on |-> TRUE, auction_id |-> a, author |-> author, content |-> content,
                   auction |-> store[a],
                   decision |-> BidDecision(store[a], author, content)]

\* the live handler alone on an active listing, over every author and every
\* kind of content
NextValidator ==
    \/ \E a \in AuctionIds, b \in StartingBids, d \in Durations : CreateAuction(a, b, d)
    \/ \E a \in AuctionIds, u \in Users, c \in ValidatorContents :
          Room(a, MaxMessages) /\ ValidateBid(a, u, c)

SpecValidator == InitUtc /\ [][NextValidator]_vars

\* the deferred callbacks alone: listings without bids and giveaways without
\* joins, their end and warning timers, and the restarts that add timers; the
\* giveaway is listed first
NextCallback ==
    \/ \E a \in AuctionIds, b \in StartingBids, d \in Durations :
          gcreated # {} /\ CreateAuction(a, b, d)
    \/ \E g \in GiveawayIds, d \in GiveawayDurations : CreateGiveaway(g, d)
    \/ Tick
    \/ \E a \in AuctionIds, i \in 1..(MaxReady + 1) : EndTimerFire(a, i)
    \/ \E a \in AuctionIds, i \in 1..(MaxReady + 1), f \in BOOLEAN :
          EndAuctionNoBidsLog(a, i, f)
    \/ \E a \in AuctionIds, i \in 1..(MaxReady + 1) : EndAuctionNoBidsRemove(a, i)
    \/ \E a \in AuctionIds, i \in 1..(MaxReady + 1) : EndAuctionDeleteThread(a, i)
    \/ \E a \in AuctionIds, i \in 1..MaxReady : WarningFire(a, i)
    \/ \E g \in GiveawayIds, i \in 1..(MaxReady + 1) : EndGiveawayTimerFire(g, i, 1)
    \/ \E g \in GiveawayIds, i \in 1..(MaxReady + 1) : EndGiveawayRemove(g, i)
    \/ OnReady
    \/ RestoreNext
    \/ RestoreScan(FALSE)
    \/ RestoreSchedule
    \/ RestoreGiveawaysNext
    \/ RestoreGiveawaySchedule
    \/ Crash

\* a host whose local time is ahead of UTC, where a restart in the last clock
\* unit before the end still finds time for the warning
SpecCallback == InitAhead /\ [][NextCallback]_vars

(***************************************************************************)
(* Recovery against the live handler: the bot is down with one running     *)
(* auction, users have posted in its thread, and the bot comes back.       *)
(***************************************************************************)
\* the messages of a downtime: every user with every amount, one user with
\* every malformed content
DowntimePosts == (Users \X Amounts) \cup ({"A"} \X Malformed)

\* the rows a crash can leave: no bid yet, or one accepted bid
Persisted == {<<100000, None>>, <<120000, "A">>, <<150000, "B">>}

RECURSIVE Stamp(_, _)
\* posts as thread messages with increasing created_at, the first at t
Stamp(posts, t) ==
    IF posts = <<>> THEN <<>>
    ELSE <<Message(Head(posts)[1], Head(posts)[2], t)>> \o Stamp(Tail(posts), t + 1)

RECURSIVE LiveFold(_, _, _)
\* handle_auction_bid called on each message in turn
LiveFold(st, a, msgs) ==
    IF msgs = <<>> THEN st
    ELSE LiveFold(BidOutcome(st, a, Head(msgs).author, Head(msgs).content), a, Tail(msgs))

\* the thread before the downtime: the embed and the accepted bid, if any
PriorHistory(p) ==
    <<Message(Bot, <<>>, 0)>> \o
    (IF p[2] = None THEN <<>>
     ELSE <<Message(p[2], IF p[1] = 120000 THEN C120 ELSE C150, 1)>>)

InitReplay ==
    \E p \in Persisted, n \in 0..MaxDowntime :
    \E posts \in [1..n -> DowntimePosts] :
    LET a == "a1"
        row == [NewAuction(Seller, 100000, MaxDowntime + 3)
                    EXCEPT !.highest_bid = p[1], !.highest_bidder = p[2]]
    IN  /\ store = [x \in AuctionIds |-> row]
        /\ history = [x \in AuctionIds |-> PriorHistory(p) \o Stamp(posts, 2)]
        /\ bidlog = [x \in AuctionIds |->
                        IF p[2] = None THEN <<>>
                        ELSE <<BidWrite(NewAuction(Seller, 100000, MaxDowntime + 3),
                                        p[1], p[2], "live")>>]
        /\ shadow = [on |-> TRUE, done |-> FALSE, start |-> row, posts |-> n,
                     store |-> [x \in AuctionIds |-> row]]
        /\ deals = <<>>
        /\ ended = <<>>
        /\ threads = [x \in AuctionIds |-> TRUE]
        /\ online = FALSE
        /\ now = MaxDowntime + 2
        /\ created = AuctionIds
        /\ timers = [x \in AuctionIds |-> <<>>]
        /\ etasks = [x \in AuctionIds |-> <<>>]
        /\ dtasks = [x \in AuctionIds |-> <<>>]
        /\ gates = [x \in AuctionIds |-> <<>>]
        /\ confirm = [x \in AuctionIds |-> FALSE]
        /\ rs = IdleRestore
        /\ readyCount = 1
        /\ tz \in UtcOffsets
        /\ noops = {}
        /\ verdict = NoVerdict
        /\ warnings = [x \in AuctionIds |-> <<>>]
        /\ NoGiveaways
        /\ NoPendingListings

\* the bot comes back once
Restart == readyCount = 1 /\ OnReady

ReplayDone == online /\ rs.pc = "idle"

\* the reference: the live handler fed the downtime messages in order,
\* starting from the persisted row
LiveReference ==
    /\ shadow.on
    /\ ~shadow.done
    /\ ReplayDone
    /\ shadow' = [shadow EXCEPT
            !.done = TRUE,
            !.store = LiveFold(@, "a1",
                SubSeq(history["a1"], Len(history["a1"]) - shadow.posts + 1,
                       Len(history["a1"])))]
    /\ UNCHANGED <<store, deals, ended, history, threads, online, now, created,
                   timers, etasks, dtasks, gates, bidlog, confirm, rs, readyCount,
                   tz, pvars, verdict, noops, warnings, gvars>>

NextReplay ==
    \/ Restart
    \/ RestoreNext
    \/ \E aware \in BOOLEAN : RestoreScan(aware)
    \/ RestoreApply
    \/ RestoreSchedule
    \/ LiveReference

SpecReplay == InitReplay /\ [][NextReplay]_vars

(***************************************************************************)
(* Properties.                                                             *)
(***************************************************************************)
Rows == {a \in AuctionIds : store[a] # NoRow}

\* the amount a message asks for, 0 when it is no number
Asked(m) ==
    IF IsDigit(CleanBid(Strip(m.content))) THEN BidAmount(m.content) ELSE 0

\* C1: every write of update_auction_bid, made by the live handler or by the
\* replay in any interleaving, stores an amount strictly greater than the
\* highest_bid it replaces, so the stored sequence is strictly increasing
C1_StrictIncrease ==
    \A a \in AuctionIds : \A i \in 1..Len(bidlog[a]) :
        /\ bidlog[a][i].amount > bidlog[a][i].replaced
        /\ i > 1 => bidlog[a][i].amount > bidlog[a][i - 1].amount

\* a live bid was accepted while the replay waited on an outbid DM, and the
\* replay then finished with a queued bid of the same amount left unapplied
C1_Witness ==
    \E a \in AuctionIds :
        /\ rs.pc = "schedule"
        /\ Len(bidlog[a]) = 3
        /\ bidlog[a][1].via = "live"
        /\ bidlog[a][2].via = "replay"
        /\ bidlog[a][3].via = "live"
        /\ \E k \in 1..(Len(history[a]) - 1) :
               /\ history[a][k].author \notin {Bot, Seller, bidlog[a][1].bidder}
               /\ Asked(history[a][k]) = bidlog[a][3].amount

\* C2: handle_auction_bid writes highest_bid/highest_bidder only to a row
\* whose status is active; a bid for an ended, closed or expired auction is
\* rejected
C2_LiveBidsOnlyWhenActive ==
    \A a \in AuctionIds : \A i \in 1..Len(bidlog[a]) :
        bidlog[a][i].via = "live" => bidlog[a][i].status = "active"

DealsOf(a) == {i \in 1..Len(deals) : deals[i].car_name = a}

\* C3: of the deliveries of the seller's decision for one auction, every one
\* after the first is answered as already processed or no longer active, and
\* an accepted auction has exactly one deal
C3_SecondDecisionIsNoop ==
    \A a \in AuctionIds :
        /\ \A j \in 2..Len(gates[a]) : gates[a][j] \in {"processed", "inactive"}
        /\ (\E i \in 1..Len(ended) : ended[i].auction_id = a /\ ended[i].result = "accepted")
               => Cardinality(DealsOf(a)) = 1

\* C4: add_active_deal runs at most once for an auction, whatever decisions,
\* failures, reverts and retries happen
C4_AtMostOneDeal ==
    \A a \in AuctionIds : Cardinality(DealsOf(a)) <= 1

\* C7: the highest_bidder of a row is never its seller, and no write of
\* update_auction_bid, live or replayed, names the seller
C7_SellerNeverHighestBidder ==
    \A a \in AuctionIds :
        /\ a \in Rows => store[a].highest_bidder # store[a].seller_id
        /\ \A i \in 1..Len(bidlog[a]) : bidlog[a][i].bidder # Seller

\* the seller posted the highest amount while the bot was down, the replay
\* for the row has finished, and bids of other users were applied
C7_Witness ==
    \E a \in Rows :
        /\ rs.pc = "schedule"
        /\ Head(rs.queue) = a
        /\ \E k \in 1..Len(history[a]) :
               /\ history[a][k].author = Seller
               /\ Asked(history[a][k]) > store[a].highest_bid
        /\ \E i \in 1..Len(bidlog[a]) : bidlog[a][i].via = "replay"

\* C8: a stored row has highest_bid >= starting_bid, and its highest_bidder
\* is set exactly when highest_bid > starting_bid
C8_BidderIffAboveStart ==
    \A a \in Rows :
        /\ store[a].highest_bid >= store[a].starting_bid
        /\ (store[a].highest_bidder # None) <=> (store[a].highest_bid > store[a].starting_bid)

\* a row that a live bid and a replayed bid have both raised
C8_Witness ==
    \E a \in Rows :
        /\ store[a].highest_bidder # None
        /\ store[a].highest_bid > store[a].starting_bid
        /\ \E i, j \in 1..Len(bidlog[a]) :
               bidlog[a][i].via = "live" /\ bidlog[a][j].via = "replay"

DowntimeHistory(a) ==
    SubSeq(history[a], Len(history[a]) - shadow.posts + 1, Len(history[a]))

\* C5: after the replay, highest_bid and highest_bidder equal what the live
\* handler produces from the persisted row and the same messages in order
C5_ReplayEqualsLive ==
    (shadow.on /\ shadow.done /\ ReplayDone) =>
        \A a \in AuctionIds :
            /\ store[a].highest_bid = shadow.store[a].highest_bid
            /\ store[a].highest_bidder = shadow.store[a].highest_bidder

StatusRank(status) ==
    CASE status = "active" -> 0
      [] status = "ended" -> 1
      [] status \in {"closed", "expired"} -> 2

\* C6: the status of a row moves forward along active, ended, closed or
\* expired; the one backward write is closed -> active; ended is never
\* written over closed or expired, active never over ended or expired
C6_StatusForward ==
    [][\A a \in AuctionIds :
          (store[a] # NoRow /\ store'[a] # NoRow
              /\ store'[a].status # store[a].status) =>
                \/ StatusRank(store'[a].status) > StatusRank(store[a].status)
                \/ store[a].status = "closed" /\ store'[a].status = "active"]_vars

\* the downtime history 150000 by A, 120000 by B, 200000 by B, written as
\* users write amounts, over a row with starting_bid 100000 and no bidder
C10_Scenario ==
    /\ shadow.on
    /\ shadow.start.starting_bid = 100000
    /\ shadow.start.highest_bid = 100000
    /\ shadow.start.highest_bidder = None
    /\ shadow.posts = 3
    /\ LET h == DowntimeHistory("a1")
       IN  /\ <<h[1].author, h[2].author, h[3].author>> = <<"A", "B", "B">>
           /\ <<h[1].content, h[2].content, h[3].content>> = <<C150, C120, C200>>

\* C10: the replay of that history ends with highest_bid 200000 and
\* highest_bidder B, and so does the live handler fed the same three bids
C10_ReplayOfThreeBids ==
    (C10_Scenario /\ ReplayDone) =>
        /\ store["a1"].highest_bid = 200000
        /\ store["a1"].highest_bidder = "B"
        /\ shadow.done => /\ shadow.store["a1"].highest_bid = 200000
                           /\ shadow.store["a1"].highest_bidder = "B"

\* the replay of the three bids and the live reference have both finished
C10_Witness == C10_Scenario /\ ReplayDone /\ shadow.done

\* the restore is working on the row of a, which it read as active
Restoring(a) ==
    /\ rs.pc # "idle"
    /\ rs.queue # <<>>
    /\ Head(rs.queue) = a
    /\ rs.all[a].status = "active"

\* the end of the auction, written at creation as local time, had passed when
\* the restore began
EndPassedAtStartup(a) == rs.all[a].end_time - tz <= rs.current_time

\* C11: for an active auction whose end had passed at startup, the restore
\* starts end_auction at once and only after the replay of the thread, and
\* schedules neither a sleeping end timer nor a warning timer
C11_PastEndGoesStraightToEnd ==
    [][\A a \in AuctionIds :
          (Restoring(a) /\ EndPassedAtStartup(a)) =>
              /\ rs.pc # "schedule"
              /\ Len(warnings'[a]) <= Len(warnings[a])
              /\ Len(timers'[a]) > Len(timers[a]) =>
                    /\ timers'[a][Len(timers'[a])] <= now
                    /\ rs.pc \in {"scan", "apply"} \/ ~threads[a]]_vars

\* C12: for an active auction whose end lies ahead at startup, the restore
\* schedules the end timer after the replay, and the timer is due at the
\* persisted end of the auction
C12_RestoredTimerDueAtEndTime ==
    [][\A a \in AuctionIds :
          (/\ Restoring(a)
           /\ ~EndPassedAtStartup(a)
           /\ Len(timers'[a]) > Len(timers[a])) =>
              /\ rs.pc = "schedule"
              /\ timers'[a][Len(timers'[a])] = rs.all[a].end_time - tz]_vars

\* this step is end_auction removing the row of an auction it read without a
\* highest bidder: after the no-bids branch, or at once for a missing thread
NoBidsRemoval(a) ==
    /\ store[a] # NoRow
    /\ store'[a] = NoRow
    /\ \/ \E i \in DOMAIN etasks[a] :
             /\ etasks[a][i].pc \in {"nobids", "nobids_logged"}
             /\ i \in DOMAIN etasks'[a]
             /\ etasks'[a][i].pc = "delete_thread"
       \/ /\ Len(timers'[a]) < Len(timers[a])
          /\ store[a].status = "active"
          /\ store[a].highest_bidder = None

\* C13: when end_auction removes an auction that ended without a bid, the
\* ended log holds its no_bids entry and there is no deal for it
C13_NoBidsLoggedThenRemoved ==
    [][\A a \in AuctionIds :
          NoBidsRemoval(a) =>
              /\ \E i \in 1..Len(ended') :
                    ended'[i].auction_id = a /\ ended'[i].result = "no_bids"
              /\ DealsOf(a) = {}]_vars

\* the row of a is ended with a highest bidder, the seller holds the
\* accept/reject buttons and no decision has been taken up
AwaitsDecision(a) ==
    /\ store[a] # NoRow
    /\ store[a].status = "ended"
    /\ store[a].highest_bidder # None
    /\ confirm[a]
    /\ dtasks[a] = <<>>

\* C14: a row that is ended with a highest bidder and awaits the seller's
\* decision is not deleted by any operation, startup recovery included
C14_AwaitingRowStays ==
    [][\A a \in AuctionIds : AwaitsDecision(a) => store'[a] # NoRow]_vars

\* C15: when handle_auction_accept or handle_auction_reject returns after
\* the flip to closed and the row is still stored, its side effects were not
\* completed and the status of the row is active again
C15_FailedDecisionReverts ==
    [][\A a \in AuctionIds :
          (/\ online'
           /\ Len(dtasks'[a]) < Len(dtasks[a])
           /\ store'[a] # NoRow) => store'[a].status = "active"]_vars

\* this step is end_auction sending the thread announcement and the seller's
\* confirmation request, or handle_auction_accept sending the deal channel
\* messages and the DMs to seller and buyer
NotificationStep(a) ==
    /\ online'
    /\ \/ \E i \in DOMAIN etasks[a] :
             etasks[a][i].pc = "announce" /\ etasks'[a] = RemoveAt(etasks[a], i)
       \/ \E i \in DOMAIN dtasks[a] :
             /\ dtasks[a][i].pc = "dealt"
             /\ \/ dtasks'[a] = RemoveAt(dtasks[a], i)
                \/ dtasks'[a] = [dtasks[a] EXCEPT ![i].pc = "logged"]

\* C16: a step that sends notifications leaves the row as it is when every
\* send succeeds, whatever the outcome of the sends: status and bid fields
\* are untouched
C16_NotificationsNeverAlterState ==
    [][\A a \in AuctionIds : NotificationStep(a) => store'[a] = store[a]]_vars

\* the clicks that were answered as joined
JoinedClicks(g) ==
    {j \in 1..Len(joins) : joins[j].giveaway_id = g /\ joins[j].answer = "joined"}

\* C17: whatever way joins interleave with end_giveaway, every join answered
\* as joined is in the participant list the running end_giveaway draws from
C17_JoinedMeansCounted ==
    \A g \in GiveawayIds : \A i \in DOMAIN gtasks[g] : \A j \in JoinedClicks(g) :
        InList(joins[j].user_id, gtasks[g][i].giveaway.participants)

JoinStep == Len(joins') = Len(joins) + 1

\* C19: the stored participants hold no identity twice; a join by an
\* identity already in the list is answered as already joined and a join on
\* a removed giveaway as no longer active, and neither changes the table; a
\* join answered as joined adds the identity
C19_JoinIsIdempotent ==
    [][/\ \A g \in GiveawayIds :
             giveaways[g] # NoRow =>
                \A i, j \in DOMAIN giveaways[g].participants :
                    i # j => giveaways[g].participants[i] # giveaways[g].participants[j]
       /\ JoinStep =>
             LET click == joins'[Len(joins')]
                 g == click.giveaway_id
             IN  /\ giveaways[g] = NoRow <=> click.answer = "inactive"
                 /\ (giveaways[g] # NoRow /\ InList(click.user_id, giveaways[g].participants))
                       <=> click.answer = "already"
                 /\ click.answer \in {"inactive", "already"} => giveaways' = giveaways
                 /\ click.answer = "joined" =>
                       giveaways'[g].participants =
                           Append(giveaways[g].participants, click.user_id)]_vars

\* a fresh join, a repeated join and a join after the removal have all been
\* answered
C19_Witness ==
    /\ Len(joins) = 3
    /\ joins[1].answer = "joined"
    /\ joins[2].answer = "already"
    /\ joins[3].answer = "inactive"

\* this step is end_giveaway task i removing the row of g
GiveawayRemoval(g, i) ==
    /\ online'
    /\ i \in DOMAIN gtasks[g]
    /\ gtasks'[g] = RemoveAt(gtasks[g], i)
    /\ giveaways[g] # NoRow
    /\ giveaways'[g] = NoRow

\* C20: when an end_giveaway that found participants removes the row, its
\* winner has been announced and a deal with the host as seller and the
\* winner as buyer has been created
C20_WinnerGetsDeal ==
    [][\A g \in GiveawayIds : \A i \in DOMAIN gtasks[g] :
          (GiveawayRemoval(g, i) /\ gtasks[g][i].giveaway.participants # <<>>) =>
              /\ Announcement(g, "winner", gtasks[g][i].winner_id) \in gannounce
              /\ \E d \in DealsOf(g) :
                    /\ deals[d].seller_id = gtasks[g][i].giveaway.host_id
                    /\ deals[d].buyer_id = gtasks[g][i].winner_id]_vars

\* the writes of update_auction_bid this step makes for a
NewWrites(a) == (Len(bidlog[a]) + 1)..Len(bidlog'[a])

\* the highest_bid and highest_bidder the checks that accepted write w were
\* evaluated against: the live handler uses the row it has just read for
\* both; the replay compares the amount with the row it re-reads before the
\* write, and the bidder with the auction_data restore_active_auctions read
\* from the table when it began
ValidatedAgainst(a, w) ==
    IF w.via = "live"
    THEN <<store[a].highest_bid, store[a].highest_bidder>>
    ELSE <<w.replaced, rs.all[a].highest_bidder>>

EndCallback(a) ==
    /\ online'
    /\ \E i \in DOMAIN timers[a] : timers[a][i] <= now /\ timers'[a] = RemoveAt(timers[a], i)

\* C22: end_auction called for a row that is no longer active (ended, closed
\* or expired) changes no row and starts no further announcement and seller
\* confirmation request
C22_EndActsOnlyOnActive ==
    [][\A a \in AuctionIds :
          (EndCallback(a) /\ store[a] # NoRow /\ store[a].status # "active") =>
              /\ store' = store
              /\ etasks' = etasks]_vars

\* this step is an ending-soon warning of a firing
WarningCallback(a) ==
    /\ online'
    /\ \E i \in DOMAIN warnings[a] :
          warnings[a][i] <= now /\ warnings'[a] = RemoveAt(warnings[a], i)

\* this step is an end timer of giveaway g firing, which calls end_giveaway
GiveawayEndCallback(g) ==
    /\ online'
    /\ \E i \in DOMAIN gtimers[g] :
          gtimers[g][i] <= now /\ gtimers'[g] = RemoveAt(gtimers[g], i)

\* this step changes no table, creates no deal, sends nothing and starts no
\* coroutine that would
SilentStep ==
    /\ store' = store
    /\ giveaways' = giveaways
    /\ deals' = deals
    /\ ended' = ended
    /\ history' = history
    /\ threads' = threads
    /\ confirm' = confirm
    /\ gannounce' = gannounce
    /\ etasks' = etasks
    /\ gtasks' = gtasks

\* C23: an end or warning callback that fires for an auction or giveaway
\* whose row is no longer in the table changes no stored state, creates no
\* deal and sends no notification
C23_CallbackOnMissingRecordIsSilent ==
    [][/\ \A a \in AuctionIds :
             ((EndCallback(a) \/ WarningCallback(a)) /\ store[a] = NoRow) => SilentStep
       /\ \A g \in GiveawayIds :
             (GiveawayEndCallback(g) /\ giveaways[g] = NoRow) => SilentStep]_vars

\* an end timer of an auction, an ending-soon warning and an end timer of a
\* giveaway have each fired after the row was removed
C23_Witness ==
    noops = {"end_auction", "auction_ending_soon_warning", "end_giveaway"}

\* this step is restore_active_auctions handling the active row of a, whose
\* thread is not found
ThreadMissingAtRestore(a) ==
    /\ online'
    /\ rs.pc = "loop"
    /\ rs.queue # <<>>
    /\ Head(rs.queue) = a
    /\ rs.all[a].status = "active"
    /\ ~threads[a]
    /\ rs' # rs

\* this step is process_missed_bids ending for a without a replay although
\* the thread holds a bid the replay would apply: its history was not read
HistoryNotRead(a) ==
    /\ online'
    /\ rs.pc = "scan"
    /\ Head(rs.queue) = a
    /\ rs'.pc # "scan"
    /\ ApplyRun(store, a, SortByTimestamp(ScanHistory(history[a], rs.all[a],
                                                      rs.all[a].end_time))).writes # <<>>
    /\ bidlog' = bidlog

\* C24: during restore_active_auctions an auction whose thread is missing is
\* removed from the table, at once or by the end_auction the restore starts
\* for it, and an auction whose history cannot be read is removed from the
\* table
C24_FailingRecordIsDropped ==
    [][\A a \in AuctionIds :
          /\ ThreadMissingAtRestore(a) =>
                store'[a] = NoRow \/ Len(timers'[a]) > Len(timers[a])
          /\ HistoryNotRead(a) => store'[a] = NoRow]_vars

\* C25: a bid handle_auction_bid rejects (seller, self-outbid, malformed or
\* non-positive, above the ceiling, not above highest_bid) leaves the row as
\* it was: highest_bid, highest_bidder and status are unchanged
C25_RejectedBidChangesNothing ==
    (verdict.on /\ verdict.decision # "accept") =>
        /\ store[verdict.auction_id] # NoRow
        /\ store[verdict.auction_id].highest_bid = verdict.auction.highest_bid
        /\ store[verdict.auction_id].highest_bidder = verdict.auction.highest_bidder
        /\ store[verdict.auction_id].status = verdict.auction.status
        /\ bidlog[verdict.auction_id] # <<>> =>
              bidlog[verdict.auction_id][Len(bidlog[verdict.auction_id])].amount
                  = verdict.auction.highest_bid

\* a bid below the stored highest_bid of another bidder has been rejected
C25_Witness ==
    /\ verdict.on
    /\ verdict.decision = "low"
    /\ verdict.auction.highest_bidder \notin {None, verdict.author}
    /\ BidAmount(verdict.content) < verdict.auction.highest_bid

\* this step is a handler of the seller's decision whose status write to
\* closed fails
FlipFailed(a) ==
    /\ Len(gates'[a]) = Len(gates[a]) + 1
    /\ gates'[a][Len(gates'[a])] = "failed"

\* C26: when the status write to closed fails in handle_auction_accept or
\* handle_auction_reject, no deal, no ended-log entry and no handler
\* coroutine with side effects exists because of the call, and the stored
\* row, its status included, is the one the record had before the call
C26_FailedFlipChangesNothing ==
    [][\A a \in AuctionIds :
          FlipFailed(a) =>
              /\ store' = store
              /\ deals' = deals
              /\ ended' = ended
              /\ dtasks' = dtasks
              /\ threads' = threads]_vars

\* this step is the listing_timeout task i finishing its sleep
TimeoutStep(i) ==
    /\ i \in 1..Len(ptasks)
    /\ ~ptasks[i].done
    /\ ptasks' = [ptasks EXCEPT ![i].done = TRUE]

\* C27: a timeout removes a pending submission only when IMAGE_UPLOAD_TIMEOUT
\* has passed since that submission was made
C27_TimeoutPurgesOnlyItsOwnSubmission ==
    [][\A i \in 1..MaxSubmissions :
          (TimeoutStep(i) /\ pending # NoPending /\ pending' = NoPending)
              => pending.at + ImageUploadTimeout <= now]_vars

\* the rules of a bid as the bidding contract lists them, first failure first
ReferenceDecision(auction, author, content) ==
    LET digits == SelectSeq(content, LAMBDA ch : ch \notin Symbols)
        isInteger == digits # <<>> /\ \A i \in 1..Len(digits) : digits[i] \in Digits
    IN  IF author = auction.seller_id THEN "seller"
        ELSE IF author = auction.highest_bidder THEN "highest_bidder"
        ELSE IF ~isInteger \/ ToInt(digits) <= 0 THEN "not_positive_integer"
        ELSE IF ToInt(digits) > 999999999 THEN "above_ceiling"
        ELSE IF ToInt(digits) <= auction.highest_bid THEN "not_above_highest"
        ELSE "accept"

\* the contract's rule for each answer of handle_auction_bid
RuleOf(decision) ==
    CASE decision = "seller" -> "seller"
      [] decision = "self" -> "highest_bidder"
      [] decision \in {"empty", "nan", "nonpos"} -> "not_positive_integer"
      [] decision = "toolarge" -> "above_ceiling"
      [] decision = "low" -> "not_above_highest"
      [] decision = "accept" -> "accept"

\* C28: on an active auction handle_auction_bid stores the bid exactly when
\* the reference rules accept it, and otherwise answers with the first rule
\* that fails in the order seller, highest bidder, not a positive integer,
\* above the ceiling, not above highest_bid
C28_HandlerAgreesWithReference ==
    [][(verdict' # verdict /\ verdict'.auction.status = "active") =>
          LET v == verdict'
              a == v.auction_id
              ref == ReferenceDecision(v.auction, v.author, v.content)
          IN  /\ RuleOf(v.decision) = ref
              /\ ref = "accept" =>
                    /\ Len(bidlog'[a]) = Len(bidlog[a]) + 1
                    /\ store'[a].highest_bidder = v.author
                    /\ store'[a].highest_bid = ToInt(CleanBid(v.content))
              /\ ref # "accept" => (store' = store /\ bidlog' = bidlog)]_vars

\* the highest bidder has posted an amount that is not above highest_bid, and
\* the answer is the earlier rule
C28_Witness ==
    /\ verdict.on
    /\ verdict.auction.status = "active"
    /\ verdict.author = verdict.auction.highest_bidder
    /\ ~IntRaises(CleanBid(verdict.content))
    /\ ToInt(CleanBid(verdict.content)) <= verdict.auction.highest_bid
    /\ verdict.decision = "self"

\* this step starts an end timer for auction a: at creation or in the restore
EndScheduled(a) ==
    /\ Len(timers'[a]) = Len(timers[a]) + 1
    /\ SubSeq(timers'[a], 1, Len(timers[a])) = timers[a]

\* C29: whenever an end callback is scheduled more than the warning offset
\* ahead, at creation or in recovery, a warning callback is scheduled with it
\* at the end minus the offset; when the remaining time is at most the offset
\* no warning is scheduled
C29_WarningScheduledWithEnd ==
    [][\A a \in AuctionIds :
          EndScheduled(a) =>
              LET due == timers'[a][Len(timers'[a])]
              IN  IF due - now > WarningLead
                  THEN warnings'[a] = Append(warnings[a], due - WarningLead)
                  ELSE warnings'[a] = warnings[a]]_vars

\* the created_at values of the bot's messages in a thread history
BotTimes(hist) == {hist[i].created_at : i \in {j \in DOMAIN hist : hist[j].author = Bot}}

\* message m of a thread history is strictly later than the bot's most
\* recent message in it
AfterMarker(hist, m) == \A t \in BotTimes(hist) : m.created_at > t

\* this step is process_missed_bids reading the history of auction a
ReplayScan(a) ==
    /\ online
    /\ rs.pc = "scan"
    /\ Head(rs.queue) = a
    /\ rs' # rs

GiveawayDeals(g) == {d \in DOMAIN deals : deals[d].car_name = g}

\* the runs of end_giveaway for g that have picked a winner and not finished
WinnerPicks(g) == {i \in DOMAIN gtasks[g] : gtasks[g][i].winner_id # None}

\* C31: for each giveaway at most one deal is created and at most one run of
\* end_giveaway holds a picked winner, however many times end_giveaway is
\* started for it
C31_OneWinnerOneDeal ==
    \A g \in GiveawayIds :
        /\ Cardinality(GiveawayDeals(g)) <= 1
        /\ Cardinality(WinnerPicks(g)) <= 1

\* the writes of update_auction_bid made for a after end_auction had marked
\* the row: the row they replaced was no longer active
PostEndWrites(a) == {k \in DOMAIN bidlog[a] : bidlog[a][k].status # "active"}

\* the accepted entries of the ended-auctions log for a
AcceptedEntries(a) ==
    {e \in DOMAIN ended : ended[e].auction_id = a /\ ended[e].result = "accepted"}

\* the deals created for auction a
AuctionDeals(a) == {d \in DOMAIN deals : deals[d].car_name = a}

\* C32: the price and the buyer handle_auction_accept records are not those
\* of a bid stored after end_auction marked the auction ended: the logged
\* price is not the amount of such a bid, and the buyer of the deal has a bid
\* stored while the auction was active
C32_AcceptRecordsValuesAtEnd ==
    \A a \in AuctionIds :
        /\ \A e \in AcceptedEntries(a) : \A k \in PostEndWrites(a) :
              bidlog[a][k].amount # ended[e].final_bid
        /\ \A d \in AuctionDeals(a) :
              \E k \in DOMAIN bidlog[a] \ PostEndWrites(a) :
                  bidlog[a][k].bidder = deals[d].buyer_id

\* this step is the no-bids branch of end_auction removing the row of a
NoBidsBranchRemoval(a) ==
    /\ store[a] # NoRow
    /\ store'[a] = NoRow
    /\ \E i \in DOMAIN etasks[a] :
          /\ etasks[a][i].pc \in {"nobids", "nobids_logged"}
          /\ etasks' = [etasks EXCEPT ![a][i].pc = "delete_thread"]

\* C33: the no-bids branch of end_auction removes a row only when the
\* highest_bidder stored in it is unset at the removal
C33_NoBidsRemovalDropsNoBid ==
    [][\A a \in AuctionIds :
          NoBidsBranchRemoval(a) => store[a].highest_bidder = None]_vars

\* the rejected entries of the ended-auctions log for a
RejectedEntries(a) ==
    {e \in DOMAIN ended : ended[e].auction_id = a /\ ended[e].result = "rejected"}

\* C34: the two invocations of a decision handler that one click starts make
\* the side effects of the decision run once: at most one deal and one
\* accepted entry for an accept, at most one rejected entry for a reject
C34_ClickRunsEffectsOnce ==
    \A a \in AuctionIds :
        /\ Cardinality(AuctionDeals(a)) <= 1
        /\ Cardinality(AcceptedEntries(a)) <= 1
        /\ Cardinality(RejectedEntries(a)) <= 1

\* the entries of the ended-auctions log for a
OutcomeEntries(a) == {e \in DOMAIN ended : ended[e].auction_id = a}

\* C35: the ended-auctions log holds at most one entry (accepted, rejected or
\* no_bids) for each auction
C35_OneOutcomeEntry ==
    \A a \in AuctionIds : Cardinality(OutcomeEntries(a)) <= 1

\* the user messages of a's thread whose created_at is later than end_time
LateMessages(a, end_time) ==
    {i \in DOMAIN history[a] :
        history[a][i].author # Bot /\ history[a][i].created_at > end_time}

\* this step is process_missed_bids storing bids for a
ReplayWrites(a) == {k \in NewWrites(a) : bidlog'[a][k].via = "replay"}

\* C36: every bid the replay stores is the amount of a message of its bidder
\* whose created_at is not later than the end_time of the row
C36_ReplayAcceptsNothingAfterEnd ==
    [][\A a \in AuctionIds : \A k \in ReplayWrites(a) :
          \E i \in DOMAIN history[a] \ LateMessages(a, store[a].end_time) :
              /\ history[a][i].author = bidlog'[a][k].bidder
              /\ ~IntRaises(CleanBid(Strip(history[a][i].content)))
              /\ BidAmount(history[a][i].content) = bidlog'[a][k].amount]_vars

\* a restart long after the end: the recovery has run over a thread that
\* holds a bid posted in time, which it has stored, and a higher bid by
\* another user posted after end_time, which it has not
C36_Witness ==
    \E a \in AuctionIds :
        /\ store[a] # NoRow
        /\ readyCount > 1
        /\ rs.pc = "idle"
        /\ \E k \in DOMAIN bidlog[a] : bidlog[a][k].via = "replay"
        /\ \E i \in LateMessages(a, store[a].end_time) :
              /\ history[a][i].author \notin {store[a].seller_id, store[a].highest_bidder}
              /\ ~IntRaises(CleanBid(Strip(history[a][i].content)))
              /\ BidAmount(history[a][i].content) > store[a].highest_bid

\* the rows an operation has left stored with status expired
ExpiredRows == {a \in AuctionIds : store[a] # NoRow /\ store[a].status = "expired"}

\* C37: an operation that marks an auction expired also removes it: between
\* two steps no stored row has status expired
C37_ExpiredRowsAreRemoved == ExpiredRows = {}

====
